---- MODULE Spec2Model ----
(***************************************************************************)
(* A model of TooGoodTooGo.py: one polling run of the notification bot     *)
(* (async_main), repeated by an external scheduler against one             *)
(* alert_history.json file.                                                *)
(*                                                                         *)
(* Time is counted in whole hours; now is the last reading of the clock,   *)
(* and every datetime.now() returns a reading that is not earlier.  Python *)
(* values that may be None are written as strings ("None") or as records   *)
(* with a tag.  The records of the favorites list, and its end, are drawn  *)
(* when the loop reaches them: the loop reads each record exactly once, so *)
(* this gives the same runs as drawing the whole list at the fetch.        *)
(***************************************************************************)
EXTENDS Integers, Sequences, FiniteSets, TLC

VARIABLES
    now,              \* the last reading of the wall clock, in hours
    pc,               \* position of the current run in async_main
    exit_code,        \* value handed to sys.exit, -1 while none
    reason,           \* which failure (or "Done") ended the run
    error_str,        \* text of the exception raised by get_favorites
    file,             \* alert_history.json on disk
    alert_history,    \* the dict held by async_main
    entry,            \* the loop variable while its record is processed
    display_name,     \* local of async_main
    location,         \* local of async_main, assigned only at line 172
    messages,         \* local of async_main, the lines handed to run_bot
    stored_location,  \* local of run_bot
    skipped,          \* why the record taken last was passed over, if it was
    texts,            \* send_message calls that succeeded for this record
    locs,             \* send_location calls that succeeded for this record
    lastText,         \* per id: time of the last text message sent, or -1
    savedText,        \* per id: time of the last text message whose
                      \* record and save completed, or -1
    notifiedRun,      \* ids a text message was sent for in this run
    savedRun,         \* ids whose notify, record and save completed in this run
    chat_id,          \* local of async_main, TELEGRAM_CHAT_ID as read at line 133
    api_key,          \* local of async_main, TELEGRAM_API_KEY as read at line 134
    staleRun          \* a record that carries no location of its own had
                      \* messages sent for it in this run

vars == <<now, pc, exit_code, reason, error_str, file, alert_history,
          entry, display_name, location, messages, stored_location,
          skipped, texts, locs, lastText, savedText, notifiedRun,
          savedRun, chat_id, api_key, staleRun>>

(***************************************************************************)
(* Bounds of the model.                                                    *)
(***************************************************************************)
MaxTime == 3

(***************************************************************************)
(* timedelta(hours=2)                                                      *)
(***************************************************************************)
CooldownHours == 2

\* Python's None, a local that was never assigned, and a missing dict key.
None == "None"
Unbound == "Unbound"
Absent == "Absent"

\* The listing ids; the history is keyed by them and treats them alike.
Ids == {"a"}

\* ---------------------------------------------------------------- values

PyNone == [t |-> "None", v |-> 0]
PyFloat(x) == [t |-> "float", v |-> x]

\* str(x) of line 186: "None" for None, the repr of the float otherwise.
Str(x) == IF x.t = "None" THEN [chars |-> "None", v |-> 0]
                           ELSE [chars |-> "repr", v |-> x.v]

\* float(s) of line 101 parses the repr of a float and rejects "None".
FloatOk(s) == s.chars = "repr"
Float(s) == s.v

\* The location dicts a record may carry.
L1 == [bound |-> TRUE, latitude |-> PyFloat(51), longitude |-> PyFloat(114)]
L2 == [bound |-> TRUE, latitude |-> PyFloat(53), longitude |-> PyFloat(113)]
LatOnly == [bound |-> TRUE, latitude |-> PyFloat(51), longitude |-> PyNone]
NoLocation == [bound |-> FALSE, latitude |-> PyNone, longitude |-> PyNone]

\* One record of get_favorites().  item is the item_id inside entry['item']
\* (None when the item dict has no item_id, Absent when there is no 'item').
Entries ==
    [items_available : {0, 1},
     item : Ids \cup {None, Absent},
     display_name : {None, "shop"},
     pickup_interval : {Absent, "start", "full"},
     pickup_location : {NoLocation, LatOnly, L1, L2}]

NoEntry == [items_available |-> 0, item |-> Absent, display_name |-> None,
            pickup_interval |-> Absent, pickup_location |-> NoLocation]

NoMessages == [location |-> <<Str(PyNone), Str(PyNone)>>]
NoStored == <<0, 0>>

\* The record taken last was not passed over; it was, for the reason why.
NoSkip == [why |-> "none", item |-> Absent]
Skip(why, item) == [why |-> why, item |-> item]

\* ------------------------------------------------------------ error text

Lower(c) ==
    CASE c = "A" -> "a" [] c = "U" -> "u" [] c = "T" -> "t" [] c = "H" -> "h"
      [] c = "O" -> "o" [] c = "K" -> "k" [] c = "E" -> "e" [] c = "N" -> "n"
      [] c = "R" -> "r" [] c = "I" -> "i" [] c = "Z" -> "z" [] c = "D" -> "d"
      [] OTHER -> c

LowerStr(s) == [i \in 1..Len(s) |-> Lower(s[i])]

Contains(s, sub) ==
    \E i \in 1..(Len(s) - Len(sub) + 1) : SubSeq(s, i, i + Len(sub) - 1) = sub

auth_error_indicators ==
    { <<"4", "0", "1">>,
      <<"U", "N", "A", "U", "T", "H", "O", "R", "I", "Z", "E", "D">>,
      <<"a", "u", "t", "h">>,
      <<"t", "o", "k", "e", "n">> }

\* The same test without the two calls of lower().
check_auth_error_case_sensitive(s) ==
    \E ind \in auth_error_indicators : Contains(s, ind)

check_auth_error(s) ==
    \E ind \in auth_error_indicators : Contains(LowerStr(s), LowerStr(ind))

\* Texts an exception of get_favorites may carry.
ErrorTexts ==
    { <<"4", "0", "1">>,
      <<"U", "n", "a", "u", "t", "h", "o", "r", "i", "z", "e", "d">>,
      <<"T", "o", "k", "e", "n">>,
      <<"A", "u", "t", "h">>,
      <<"5", "0", "0">>,
      <<"t", "i", "m", "e", "d">>,
      <<>> }

\* ------------------------------------------------------- history mapping

EmptyMap == [k \in {} |-> 0]

Put(h, k, v) == [x \in (DOMAIN h) \cup {k} |-> IF x = k THEN v ELSE h[x]]

\* json.dump writes every key as a string: None becomes "null".
JsonKey(k) == IF k = None THEN "null" ELSE k

\* The mapping json.load gets back from what json.dump wrote.  A dict that
\* holds both "null" (loaded) and None (recorded later) is written with the
\* key "null" twice, and the loader keeps the later one.
JsonDump(h) ==
    [s \in {JsonKey(k) : k \in DOMAIN h} |->
        IF s = "null" /\ None \in DOMAIN h THEN h[None] ELSE h[s]]

Missing == [kind |-> "missing", map |-> EmptyMap]
Corrupt == [kind |-> "corrupt", map |-> EmptyMap]
\* Bytes that are no text in the encoding open(..., 'r') decodes with.
Undecodable == [kind |-> "undecodable", map |-> EmptyMap]
Json(m) == [kind |-> "json", map |-> m]

\* A save that writes an empty document whatever the mapping holds.
SavedFileEmpty(h) == Json(EmptyMap)

\* Line 70 and the close of line 69's file: what save_alert_history leaves
\* on disk for the mapping h.
SavedFile(h) == Json(JsonDump(h))

\* ------------------------------------------------------- cooldown policy

\* A policy that never consults the history.
can_send_alert_always(id, history, current_time) == TRUE

\* A policy whose boundary is exclusive.
can_send_alert_strict(id, history, current_time) ==
    IF id \notin DOMAIN history
    THEN TRUE
    ELSE (current_time - history[id]) > CooldownHours

can_send_alert(id, history, current_time) ==
    IF id \notin DOMAIN history
    THEN TRUE
    ELSE (current_time - history[id]) >= CooldownHours

\* ------------------------------------------------------------ exit codes

\* A test that lets the run go on when only one of the two is missing.
SettingsMissingBoth(ch, k) == ch = None /\ k = None

\* Line 136.
SettingsMissing(ch, k) == ch = None \/ k = None

ExitStatus(exc) ==
    CASE exc = "TGTGAuthError" -> 1
      [] exc = "TGTGError" -> 2
      [] OTHER -> 3

\* The handler of lines 195-197 formats display_name before it raises
\* TGTGError; with display_name still unassigned that is an
\* UnboundLocalError, which leaves the handler instead.
EntryHandler(dn) == IF dn = Unbound THEN "UnboundLocalError" ELSE "TGTGError"

\* async_main returns code (lines 199-209) and sys.exit hands it to the
\* host; the locals of async_main are gone.  The record in hand and the
\* mapping are kept as they were at that moment.
Exit(code, why) ==
    /\ pc' = "exited"
    /\ exit_code' = code
    /\ reason' = why
    /\ display_name' = Unbound
    /\ location' = NoLocation
    /\ messages' = NoMessages
    /\ stored_location' = NoStored

\* The run goes on at the position p.
Goto(p) ==
    /\ pc' = p
    /\ UNCHANGED <<exit_code, reason>>

Running == pc \notin {"idle", "exited", "killed"}

\* Line 163: between two assignments item_id is the id of the record in hand.
item_id == entry.item

\* ------------------------------------------------------------------ Init

Init ==
    /\ now = 0
    /\ pc = "idle"
    /\ exit_code = -1
    /\ reason = "none"
    /\ error_str = <<>>
    /\ file \in {Missing, Undecodable}
    /\ alert_history = EmptyMap
    /\ entry = NoEntry
    /\ display_name = Unbound
    /\ location = NoLocation
    /\ messages = NoMessages
    /\ stored_location = NoStored
    /\ skipped = NoSkip
    /\ texts = 0
    /\ locs = 0
    /\ lastText = [i \in Ids |-> -1]
    /\ savedText = [i \in Ids |-> -1]
    /\ notifiedRun = {}
    /\ savedRun = {}
    /\ chat_id = Unbound
    /\ api_key = Unbound
    /\ staleRun = FALSE

\* --------------------------------------------------------------- actions

\* The readings datetime.now() may return next.
Clock == now..MaxTime

\* The scheduler starts the script (line 213): a new process, new locals.
StartRun ==
    /\ pc \in {"idle", "exited", "killed"}
    /\ pc' = "main"
    /\ exit_code' = -1
    /\ reason' = "none"
    /\ error_str' = <<>>
    /\ alert_history' = EmptyMap
    /\ entry' = NoEntry
    /\ display_name' = Unbound
    /\ location' = NoLocation
    /\ messages' = NoMessages
    /\ stored_location' = NoStored
    /\ skipped' = NoSkip
    /\ texts' = 0
    /\ locs' = 0
    /\ notifiedRun' = {}
    /\ savedRun' = {}
    /\ chat_id' = Unbound
    /\ api_key' = Unbound
    /\ staleRun' = FALSE
    /\ UNCHANGED <<now, file, lastText, savedText>>

\* asyncio.run itself raises (lines 215-217).
TopLevelCrash ==
    /\ pc = "main"
    /\ Exit(4, "Crash")
    /\ UNCHANGED <<now, error_str, file, alert_history, entry, skipped, texts,
                   locs, lastText, savedText, notifiedRun, savedRun,
                   chat_id, api_key, staleRun>>

\* Lines 132-137: the client is built, then the two settings are read
\* (ch and k are what os.getenv returns) and tested.
Configure(client_ok, ch, k) ==
    /\ pc = "main"
    /\ IF ~client_ok
       THEN /\ Exit(ExitStatus("TGTGError"), "ClientInit")
            /\ UNCHANGED <<chat_id, api_key>>
       ELSE /\ chat_id' = ch
            /\ api_key' = k
            /\ IF SettingsMissing(ch, k)
               THEN Exit(ExitStatus("TGTGError"), "ConfigMissing")
               ELSE /\ Goto("load")
                    /\ UNCHANGED <<display_name, location, messages,
                                   stored_location>>
    /\ UNCHANGED <<now, error_str, file, alert_history, entry, skipped, texts,
                   locs, lastText, savedText, notifiedRun, savedRun, staleRun>>

\* Line 140, load_alert_history.
LoadHistory ==
    /\ pc = "load"
    /\ CASE file.kind = "missing" ->
              /\ alert_history' = EmptyMap
              /\ Goto("fetch")
              /\ UNCHANGED <<display_name, location, messages, stored_location>>
         [] file.kind = "json" ->
              /\ alert_history' = file.map
              /\ Goto("fetch")
              /\ UNCHANGED <<display_name, location, messages, stored_location>>
         [] file.kind = "corrupt" ->
              \* json.JSONDecodeError, caught at line 62
              /\ Exit(ExitStatus("TGTGError"), "HistoryCorrupt")
              /\ UNCHANGED alert_history
         [] file.kind = "undecodable" ->
              \* UnicodeDecodeError from the read inside json.load, which
              \* line 62 does not catch
              /\ Exit(ExitStatus("UnicodeDecodeError"), "HistoryUndecodable")
              /\ UNCHANGED alert_history
    /\ UNCHANGED <<now, error_str, file, entry, skipped, texts, locs, lastText,
                   savedText, notifiedRun, savedRun,
                   chat_id, api_key, staleRun>>

\* A fetch after which the history is loaded again.
FetchOkThenReload ==
    /\ pc = "fetch"
    /\ Goto("load")
    /\ UNCHANGED <<now, error_str, file, alert_history, entry, display_name,
                   location, messages, stored_location, skipped, texts, locs,
                   lastText, savedText, notifiedRun, savedRun, chat_id,
                   api_key, staleRun>>

\* Lines 149-157, get_favorites returns the list.
FetchOk ==
    /\ pc = "fetch"
    /\ Goto("loop")
    /\ UNCHANGED <<now, error_str, file, alert_history, entry, display_name,
                   location, messages, stored_location, skipped, texts, locs,
                   lastText, savedText, notifiedRun, savedRun,
                   chat_id, api_key, staleRun>>

\* Lines 151-155, get_favorites raises an exception whose text is s.
FetchFail(s) ==
    /\ pc = "fetch"
    /\ error_str' = s
    /\ IF check_auth_error(s)
       THEN Exit(ExitStatus("TGTGAuthError"), "AuthFailure")
       ELSE Exit(ExitStatus("TGTGError"), "FetchFailure")
    /\ UNCHANGED <<now, file, alert_history, entry, skipped, texts, locs,
                   lastText, savedText, notifiedRun, savedRun,
                   chat_id, api_key, staleRun>>

\* An exception inside the loop body reaches the handler of lines 195-197
\* and then the handlers of lines 201-209.
RaiseInEntry(dn, why) == Exit(ExitStatus(EntryHandler(dn)), why)

\* Line 194 and the next turn of the for loop, which takes entry anew.
NextEntry ==
    /\ Goto("loop")
    /\ entry' = NoEntry
    /\ messages' = NoMessages
    /\ stored_location' = NoStored
    /\ texts' = 0
    /\ locs' = 0

\* Lines 171-172: location is assigned only when the record carries one.
LocationAfter(e, loc) ==
    IF e.pickup_location.bound THEN e.pickup_location ELSE loc

\* Line 168.
Actionable(e, history, t) ==
    e.items_available > 0 /\ can_send_alert(e.item, history, t)

\* A test that asks for the start of the window only.
WindowHasStart(e) == e.pickup_interval # Absent

\* Line 174.
WindowComplete(e) == e.pickup_interval = "full"

\* Line 82 is reached, and the clock read, only for an id the history holds.
ReadsClock(e, history) ==
    e.item # Absent /\ e.items_available > 0 /\ e.item \in DOMAIN history

\* Lines 160-187 for the record e, with the clock reading t: the fields are
\* read, the cooldown is consulted and the lines of the message are built.
ProcessEntry(e, t) ==
    /\ pc = "loop"
    /\ t \in (IF ReadsClock(e, alert_history) THEN Clock ELSE {now})
    /\ now' = t
    /\ IF e.item = Absent
       THEN \* KeyError at line 163, display_name not yet assigned by 164
            /\ RaiseInEntry(display_name, "MalformedRecord")
            /\ entry' = e
            /\ skipped' = NoSkip
            /\ UNCHANGED <<texts, locs>>
       ELSE IF ~Actionable(e, alert_history, t)
       THEN /\ NextEntry
            /\ display_name' = e.display_name
            /\ skipped' = IF e.items_available > 0
                          THEN Skip("cooldown", e.item)
                          ELSE Skip("unavailable", Absent)
            /\ UNCHANGED location
       ELSE IF ~WindowComplete(e)
       THEN /\ NextEntry
            /\ display_name' = e.display_name
            /\ location' = LocationAfter(e, location)
            /\ skipped' = Skip("window", e.item)
       ELSE IF e.display_name = None
       THEN \* "Shop: " + None, TypeError at line 184
            /\ RaiseInEntry(e.display_name, "MalformedRecord")
            /\ entry' = e
            /\ skipped' = NoSkip
            /\ UNCHANGED <<texts, locs>>
       ELSE IF ~LocationAfter(e, location).bound
       THEN \* location was never assigned, line 186
            /\ RaiseInEntry(e.display_name, "LocationUnbound")
            /\ entry' = e
            /\ skipped' = NoSkip
            /\ UNCHANGED <<texts, locs>>
       ELSE /\ Goto("run_bot")
            /\ entry' = e
            /\ display_name' = e.display_name
            /\ location' = LocationAfter(e, location)
            /\ messages' =
                 [location |-> <<Str(location'.latitude),
                                 Str(location'.longitude)>>]
            /\ skipped' = NoSkip
            /\ UNCHANGED <<stored_location, texts, locs>>
    /\ UNCHANGED <<error_str, file, alert_history, lastText, savedText,
                   notifiedRun, savedRun,
                   chat_id, api_key, staleRun>>

\* Lines 95-109 of run_bot: the "Location:" line is parsed back and the
\* application is built and entered.
RunBotStart(app_ok) ==
    /\ pc = "run_bot"
    /\ IF ~FloatOk(messages.location[1]) \/ ~FloatOk(messages.location[2])
       THEN \* float("None"), ValueError at line 101
            RaiseInEntry(display_name, "LocationParse")
       ELSE IF ~app_ok
       THEN RaiseInEntry(display_name, "DeliveryError")
       ELSE /\ Goto("send_text")
            /\ stored_location' = <<Float(messages.location[1]),
                                    Float(messages.location[2])>>
            /\ UNCHANGED <<display_name, location, messages>>
    /\ UNCHANGED <<now, error_str, file, alert_history, entry, skipped, texts,
                   locs, lastText, savedText, notifiedRun, savedRun,
                   chat_id, api_key, staleRun>>

\* Line 86, bot.send_message, delivered at the time t.
SendText(ok, t) ==
    /\ pc = "send_text"
    /\ now' = t
    /\ IF ok
       THEN /\ Goto("send_location")
            /\ texts' = texts + 1
            /\ lastText' = IF item_id \in Ids
                           THEN [lastText EXCEPT ![item_id] = t]
                           ELSE lastText
            /\ notifiedRun' = notifiedRun \cup {item_id}
            /\ staleRun' = (staleRun \/ ~entry.pickup_location.bound)
            /\ UNCHANGED <<display_name, location, messages, stored_location>>
       ELSE /\ RaiseInEntry(display_name, "DeliveryError")
            /\ UNCHANGED <<texts, lastText, notifiedRun, staleRun>>
    /\ UNCHANGED <<error_str, file, alert_history, entry, skipped, locs,
                   savedText, savedRun,
                   chat_id, api_key>>

\* A sender that ignores the failure of send_location and returns.
SendLocationUnchecked(ok) ==
    /\ pc = "send_location"
    /\ Goto("record")
    /\ locs' = IF ok THEN locs + 1 ELSE locs
    /\ UNCHANGED <<now, error_str, file, alert_history, entry, display_name,
                   location, messages, stored_location, skipped, texts,
                   lastText, savedText, notifiedRun, savedRun, chat_id,
                   api_key, staleRun>>

\* Line 87, bot.send_location.
SendLocation(ok) ==
    /\ pc = "send_location"
    /\ IF ok
       THEN /\ Goto("record")
            /\ locs' = locs + 1
            /\ UNCHANGED <<display_name, location, messages, stored_location>>
       ELSE /\ RaiseInEntry(display_name, "DeliveryError")
            /\ UNCHANGED locs
    /\ UNCHANGED <<now, error_str, file, alert_history, entry, skipped, texts,
                   lastText, savedText, notifiedRun, savedRun,
                   chat_id, api_key, staleRun>>

\* Line 191, with the clock reading t.
RecordAlert(t) ==
    /\ pc = "record"
    /\ now' = t
    /\ alert_history' = Put(alert_history, item_id, t)
    /\ Goto("save_open")
    /\ UNCHANGED <<error_str, file, entry, display_name, location, messages,
                   stored_location, skipped, texts, locs, lastText, savedText,
                   notifiedRun, savedRun,
                   chat_id, api_key, staleRun>>

\* Line 69: open(..., 'w') empties the file before anything is written.
SaveOpen(ok) ==
    /\ pc = "save_open"
    /\ IF ok
       THEN /\ Goto("save_dump")
            /\ file' = Corrupt
            /\ UNCHANGED <<display_name, location, messages, stored_location>>
       ELSE /\ RaiseInEntry(display_name, "HistoryWriteError")
            /\ UNCHANGED file
    /\ UNCHANGED <<now, error_str, alert_history, entry, skipped, texts, locs,
                   lastText, savedText, notifiedRun, savedRun,
                   chat_id, api_key, staleRun>>

\* Line 70 and the end of the with block: the mapping is written and the
\* file closed; then line 194.
SaveDump(ok) ==
    /\ pc = "save_dump"
    /\ IF ok
       THEN /\ NextEntry
            /\ file' = SavedFile(alert_history)
            /\ savedText' = IF item_id \in Ids
                            THEN [savedText EXCEPT ![item_id] = lastText[item_id]]
                            ELSE savedText
            /\ savedRun' = savedRun \cup {item_id}
            /\ UNCHANGED <<display_name, location>>
       ELSE /\ RaiseInEntry(display_name, "HistoryWriteError")
            /\ UNCHANGED <<file, savedText, savedRun, entry, texts, locs>>
    /\ UNCHANGED <<now, error_str, alert_history, skipped, lastText,
                   notifiedRun,
                   chat_id, api_key, staleRun>>

\* Line 199: the list is exhausted.
Finish ==
    /\ pc = "loop"
    /\ Exit(0, "Done")
    /\ UNCHANGED <<now, error_str, file, alert_history, entry, skipped, texts,
                   locs, lastText, savedText, notifiedRun, savedRun,
                   chat_id, api_key, staleRun>>

\* The process is stopped from outside at any point of a run; what it held
\* in memory is gone.
Kill ==
    /\ Running
    /\ pc' = "killed"
    /\ reason' = "Killed"
    /\ alert_history' = EmptyMap
    /\ entry' = NoEntry
    /\ display_name' = Unbound
    /\ location' = NoLocation
    /\ messages' = NoMessages
    /\ stored_location' = NoStored
    /\ skipped' = NoSkip
    /\ texts' = 0
    /\ locs' = 0
    /\ chat_id' = Unbound
    /\ api_key' = Unbound
    /\ UNCHANGED <<now, exit_code, error_str, file, lastText, savedText,
                   notifiedRun, savedRun, staleRun>>

Next ==
    \/ StartRun
    \/ TopLevelCrash
    \/ \E c \in BOOLEAN, ch \in {None, "chat"}, k \in {None, "key"} :
          Configure(c, ch, k)
    \/ LoadHistory
    \/ FetchOk
    \/ \E s \in ErrorTexts : FetchFail(s)
    \/ \E e \in Entries, t \in Clock : ProcessEntry(e, t)
    \/ \E ok \in BOOLEAN : RunBotStart(ok)
    \/ \E ok \in BOOLEAN, t \in Clock : SendText(ok, t)
    \/ \E ok \in BOOLEAN : SendLocation(ok)
    \/ \E t \in Clock : RecordAlert(t)
    \/ \E ok \in BOOLEAN : SaveOpen(ok)
    \/ \E ok \in BOOLEAN : SaveDump(ok)
    \/ Finish
    \/ Kill

Spec == Init /\ [][Next]_vars

\* A call the run makes outside the loop head (the client and the settings,
\* the load, the fetch, run_bot and its sends, the clock, the save) returns
\* or raises.
RunStep ==
    \/ \E c \in BOOLEAN, ch \in {None, "chat"}, k \in {None, "key"} :
          Configure(c, ch, k)
    \/ LoadHistory
    \/ FetchOk
    \/ \E s \in ErrorTexts : FetchFail(s)
    \/ \E ok \in BOOLEAN : RunBotStart(ok)
    \/ \E ok \in BOOLEAN, t \in Clock : SendText(ok, t)
    \/ \E ok \in BOOLEAN : SendLocation(ok)
    \/ \E t \in Clock : RecordAlert(t)
    \/ \E ok \in BOOLEAN : SaveOpen(ok)
    \/ \E ok \in BOOLEAN : SaveDump(ok)

\* No call holds the run up for ever, and the list that get_favorites
\* returned is finite: the for loop of line 160, back at its head again and
\* again, comes to the end of the list.
FairSpec == Spec /\ WF_vars(RunStep) /\ SF_vars(Finish)

\* ---------------------------------------------------------------- claims

\* A text message for a listing id is delivered in this step.
TextSentNow == pc = "send_text" /\ pc' = "send_location" /\ item_id \in Ids

\* C1 as stated: any two text messages for the same id are at least two
\* hours apart, whatever happened to the runs in between (delivery or save
\* failures and stops between send and save included).
C1_AnyTwoTextsTwoHoursApart ==
    [][TextSentNow /\ lastText[item_id] >= 0
         => now' - lastText[item_id] >= CooldownHours]_vars

\* C1 as amended: a text message for an id comes at least two hours after
\* every earlier text message for that id whose record and save completed.
C1_TextsTwoHoursAfterSavedText ==
    [][TextSentNow /\ savedText[item_id] >= 0
         => now' - savedText[item_id] >= CooldownHours]_vars

\* A second text message for an id, two hours or more after a saved one.
C1_Witness ==
    /\ pc = "send_location"
    /\ item_id \in Ids
    /\ savedText[item_id] >= 0
    /\ lastText[item_id] - savedText[item_id] >= CooldownHours

\* The loop body runs for one record in this step (lines 160-187).
EntryStep == pc = "loop" /\ pc' \in {"loop", "run_bot", "exited"}
                /\ ~(pc' = "exited" /\ reason' = "Done")

\* C2: for a record with items available, line 168 lets the record pass
\* exactly when its id is absent from the history or the clock reading is
\* two hours or more after the recorded time (exactly two hours passes, one
\* unit of the clock less does not), and the decision leaves the history
\* and the file as they were.
C2_CooldownDecision ==
    [][EntryStep =>
         /\ (pc' = "loop" /\ skipped'.why = "cooldown") =>
               /\ skipped'.item \in DOMAIN alert_history
               /\ now' - alert_history[skipped'.item] < CooldownHours
         /\ (pc' = "loop" /\ skipped'.why = "window") =>
               \/ skipped'.item \notin DOMAIN alert_history
               \/ now' - alert_history[skipped'.item] >= CooldownHours
         /\ (pc' # "loop" /\ entry'.item # Absent) =>
               \/ entry'.item \notin DOMAIN alert_history
               \/ now' - alert_history[entry'.item] >= CooldownHours
         /\ alert_history' = alert_history
         /\ file' = file]_vars

\* A record passes the cooldown exactly two hours after its recorded alert.
C2_Witness ==
    /\ pc = "run_bot"
    /\ item_id \in DOMAIN alert_history
    /\ now - alert_history[item_id] = CooldownHours

\* C3: whenever the loop is about to take the next record, every id a text
\* message was sent for in this run is in the mapping in memory, with a
\* time not before that message, and the file on disk holds the same entry:
\* each notification is recorded and saved before the next record is
\* looked at, not at the end of the run.
C3_SavedBeforeNextListing ==
    pc = "loop" =>
        \A id \in notifiedRun :
            /\ id \in DOMAIN alert_history
            /\ (id \in Ids => alert_history[id] >= lastText[id])
            /\ file.kind = "json"
            /\ JsonKey(id) \in DOMAIN file.map
            /\ file.map[JsonKey(id)] = alert_history[id]

\* Two records were notified, recorded and saved in turn in one run.
C3_Witness == pc = "loop" /\ notifiedRun = Ids \cup {None}

\* C4: from the moment the notify, record and save of an id have completed
\* in a run, whatever the run does next and wherever it stops, the file on
\* disk is a loadable document that holds an entry for that id.
C4_SavedEntryStaysOnDisk ==
    \A id \in savedRun :
        /\ file.kind = "json"
        /\ JsonKey(id) \in DOMAIN file.map

\* The failures the loop body can meet while it processes one record.
EntryErrors == {"MalformedRecord", "LocationUnbound", "LocationParse",
                "DeliveryError", "HistoryWriteError"}

\* C5: a run that met an error while processing a record has ended there,
\* and its exit status is 2.
C5_EntryErrorExitsWithTwo ==
    reason \in EntryErrors => pc = "exited" /\ exit_code = 2

\* C6: the exit status of a run that has ended is the one stated for the
\* way it ended: 0 for Done, 1 for an authentication failure, 2 for every
\* other classified abort, 4 for a crash outside the orchestrator.
C6_ExitStatusByTerminalState ==
    pc = "exited" =>
        exit_code = CASE reason = "Done" -> 0
                      [] reason = "AuthFailure" -> 1
                      [] reason = "Crash" -> 4
                      [] OTHER -> 2

\* A failed fetch ends the run, as an authentication failure with status 1
\* exactly when the text of the error holds one of the markers in any
\* letter case and as a fetch failure with status 2 otherwise, with no
\* message sent and the mapping and the file as they were.
FetchFailureEndsBy(markers) ==
    (pc = "fetch" /\ pc' = "exited") =>
        LET marked == \E m \in markers : Contains(LowerStr(error_str'), m)
        IN  /\ marked => reason' = "AuthFailure" /\ exit_code' = 1
            /\ ~marked => reason' = "FetchFailure" /\ exit_code' = 2
            /\ UNCHANGED <<alert_history, file, texts, locs, lastText,
                           notifiedRun>>

\* C7 as stated: the markers are "401", "unauthorized" and "token".
C7_AuthOnStatedMarkers ==
    [][FetchFailureEndsBy({ <<"4", "0", "1">>,
                            <<"u", "n", "a", "u", "t", "h", "o", "r", "i",
                              "z", "e", "d">>,
                            <<"t", "o", "k", "e", "n">> })]_vars

\* C7 as amended: the markers are "401", "unauthorized", "auth" and "token",
\* looked for in the text of the error without regard to letter case.
C7_AuthOnFourMarkers ==
    [][FetchFailureEndsBy({ <<"4", "0", "1">>,
                            <<"u", "n", "a", "u", "t", "h", "o", "r", "i",
                              "z", "e", "d">>,
                            <<"a", "u", "t", "h">>,
                            <<"t", "o", "k", "e", "n">> })]_vars

\* A fetch error whose text says "Auth" ended the run as an authentication
\* failure.
C7_Witness ==
    /\ pc = "exited"
    /\ reason = "AuthFailure"
    /\ exit_code = 1
    /\ error_str = <<"A", "u", "t", "h">>

\* C8: the loop body, run for a record whose available count is 0, goes on
\* to the next record with no message sent and the mapping and the file as
\* they were, whatever the other fields of the record are.
C8_UnavailableHasNoEffect ==
    [][(/\ pc = "loop"
        /\ \/ pc' = "loop" /\ skipped'.why = "unavailable"
           \/ pc' = "exited" /\ reason' \in EntryErrors
                 /\ entry'.items_available = 0)
         => /\ pc' = "loop"
            /\ UNCHANGED <<alert_history, file, texts, locs, lastText,
                           notifiedRun>>]_vars

\* The record in hand has items, a complete pickup window, a name and an
\* id field, and the location dict loc.
InHandWithLocation(loc) ==
    /\ entry.items_available > 0
    /\ entry.item # Absent
    /\ entry.display_name # None
    /\ entry.pickup_interval = "full"
    /\ entry.pickup_location = loc

\* C9: for one record the location message is sent only after the text
\* message, each at most once, and a record that carries no coordinates
\* still has its text message sent, with no location message and no abort
\* for want of coordinates.
C9_TextThenLocation ==
    /\ locs <= texts
    /\ texts <= 1
    /\ InHandWithLocation(NoLocation) =>
          /\ locs = 0
          /\ pc \notin {"send_location"}
          /\ ~(pc = "exited" /\ reason = "LocationUnbound")

\* C10: a record whose location holds a latitude and no longitude is
\* handled as a record without location: no location message is sent for
\* it and the half pair does not end the run.
C10_HalfLocationIsAbsent ==
    InHandWithLocation(LatOnly) =>
        /\ locs = 0
        /\ ~(pc = "exited" /\ reason = "LocationParse")

\* The run leaves lines 132-137, by going on to the load of the history or
\* by ending.
LeavesConfiguration ==
    pc = "main" /\ pc' \in {"load", "exited"} /\ reason' # "Crash"

\* C11: once the two settings are read, a missing chat id or a missing api
\* key ends the run there with exit status 2, as ConfigMissing; a run that
\* ends at this point has fetched nothing, sent nothing and left the
\* mapping and the file alone, and a run goes on to the load and the fetch
\* only with both settings present.
C11_ConfigMissingAbortsBeforeFetch ==
    [][LeavesConfiguration =>
         /\ (chat_id' = None \/ api_key' = None) =>
               /\ pc' = "exited"
               /\ reason' = "ConfigMissing"
               /\ exit_code' = 2
         /\ pc' = "exited" =>
               /\ exit_code' = 2
               /\ UNCHANGED <<file, alert_history, texts, locs, lastText,
                              notifiedRun>>
         /\ pc' = "load" => chat_id' = "chat" /\ api_key' = "key"]_vars

\* The chat id is set and the api key is not: the run ended as ConfigMissing.
C11_Witness ==
    /\ pc = "exited"
    /\ reason = "ConfigMissing"
    /\ exit_code = 2
    /\ chat_id = "chat"
    /\ api_key = None

\* C12: the load of a file that exists and is no valid JSON ends the run
\* as HistoryCorrupt with exit status 2, with no message sent and the file
\* as it was; the load of a missing file gives the empty mapping and the
\* run goes on.
C12_InvalidFileSignalsHistoryCorrupt ==
    [][(pc = "load" /\ pc' # "killed") =>
         /\ file.kind = "missing" =>
               pc' = "fetch" /\ alert_history' = EmptyMap
         /\ file.kind \in {"corrupt", "undecodable"} =>
               /\ pc' = "exited"
               /\ reason' = "HistoryCorrupt"
               /\ exit_code' = 2
               /\ UNCHANGED <<file, texts, locs, lastText, notifiedRun>>]_vars

\* C13: every step that changes the file on disk replaces it by the
\* complete document of the mapping being saved, so the file holds the
\* whole previous mapping or the whole new one at every instant.
C13_SaveIsAtomic ==
    [][file' = file
         \/ (file'.kind = "json" /\ file'.map = JsonDump(alert_history))]_vars

\* C14: a record without identifier never has a message sent for it nor an
\* entry written under a null key, in memory or on disk, and a record in
\* hand that lacks its identifier or its display name has ended the run
\* with nothing sent for it.
C14_MissingIdOrNameIsMalformed ==
    /\ None \notin notifiedRun
    /\ None \notin DOMAIN alert_history
    /\ file.kind = "json" => "null" \notin DOMAIN file.map
    /\ (entry # NoEntry
          /\ (entry.item \in {None, Absent} \/ entry.display_name = None))
         => pc = "exited" /\ texts = 0 /\ locs = 0

\* C15: the loop body, run for a record that has its item field and items
\* available, with a pickup window that is absent or lacks its end, neither
\* ends the run nor hands anything to the sender: the body goes past line
\* 174 only with a complete window, and a record passed over for its window
\* leaves the sends, the mapping and the file as they were and the loop at
\* the next record.
C15_IncompleteWindowIsSkipped ==
    [][EntryStep =>
         /\ (pc' # "loop" /\ entry'.item # Absent) =>
               entry'.pickup_interval = "full"
         /\ (pc' = "loop" /\ skipped'.why = "window") =>
               UNCHANGED <<alert_history, file, lastText, notifiedRun,
                           savedRun, exit_code, reason>>]_vars

\* A record was passed over for its window and the loop is at the next one.
C15_Witness ==
    /\ pc = "loop"
    /\ skipped.why = "window"
    /\ texts = 0
    /\ locs = 0

\* C16: when a run has ended in Done, the records notified in it all
\* carried a location of their own (a record without one received
\* nothing), and every id notified was recorded and saved: the mapping and
\* the file hold it with a time of this run, not before its text message.
C16_DoneRunNotifiedOnlyEligible ==
    (pc = "exited" /\ reason = "Done") =>
        /\ exit_code = 0
        /\ ~staleRun
        /\ notifiedRun = savedRun
        /\ \A id \in notifiedRun :
              /\ id \in DOMAIN alert_history
              /\ (id \in Ids => alert_history[id] >= lastText[id])
              /\ file.kind = "json"
              /\ JsonKey(id) \in DOMAIN file.map

\* Line 191 is executed in this step.
RecordedNow == pc = "record" /\ pc' = "save_open"

\* C17: recording an alert sets the entry of the id in hand to the clock
\* reading, not earlier than the entry it overwrites, and leaves every
\* other entry as it was; and across the runs no entry of the history kept
\* on disk is ever removed or set back: a loadable file stays loadable and
\* keeps every key, with a time that is not earlier.
C17_RecordOverwritesNothingRemoved ==
    [][/\ RecordedNow =>
            /\ DOMAIN alert_history' = DOMAIN alert_history \cup {item_id}
            /\ alert_history'[item_id] = now'
            /\ item_id \in DOMAIN alert_history =>
                  alert_history'[item_id] >= alert_history[item_id]
            /\ \A k \in DOMAIN alert_history \ {item_id} :
                  alert_history'[k] = alert_history[k]
       /\ file.kind = "json" =>
            /\ file'.kind = "json"
            /\ \A k \in DOMAIN file.map :
                  k \in DOMAIN file'.map /\ file'.map[k] >= file.map[k]]_vars

\* C18: when the location message for the record in hand has been sent,
\* its coordinates are the ones that record carries itself; a record
\* without a location has no location message sent for it.
C18_OwnCoordinatesSent ==
    (pc = "record" /\ locs = 1) =>
        /\ entry.pickup_location.bound
        /\ stored_location = <<entry.pickup_location.latitude.v,
                               entry.pickup_location.longitude.v>>

\* The run is at the loop over the records or inside its body.
InLoop == pc \in {"loop", "run_bot", "send_text", "send_location", "record",
                  "save_open", "save_dump"}

\* C19: from the moment the loop takes a record, the mapping in memory is
\* changed only at line 191 and the file only by the save that follows,
\* both after the text message and the location message for the record in
\* hand were sent; a run that ends in run_bot or at a failed send leaves the
\* mapping and the file as they were before the record was taken.
C19_EntryWrittenOnlyAfterBothSends ==
    [][(InLoop /\ pc' # "killed") =>
         /\ alert_history' # alert_history =>
               pc = "record" /\ texts = 1 /\ locs = 1
         /\ file' # file =>
               /\ pc \in {"save_open", "save_dump"}
               /\ texts = 1
               /\ locs = 1
               /\ item_id \in DOMAIN alert_history
         /\ (pc \in {"loop", "run_bot", "send_text", "send_location"}
               /\ pc' = "exited") =>
               UNCHANGED <<alert_history, file>>]_vars

\* The text message was sent and the location message failed: the run has
\* ended with no entry for the id in memory and no file written.
C19_Witness ==
    /\ pc = "exited"
    /\ reason = "DeliveryError"
    /\ texts = 1
    /\ locs = 0
    /\ item_id \in Ids
    /\ item_id \notin DOMAIN alert_history
    /\ file = Missing

\* The stage of the run: configuration, load of the history, fetch of the
\* snapshot, the loop over the records, the end.
Stage(p) ==
    CASE p = "main" -> 0
      [] p = "load" -> 1
      [] p = "fetch" -> 2
      [] p = "exited" -> 4
      [] OTHER -> 3

====
